---------------------------- MODULE Spec2Model ----------------------------
(***************************************************************************)
(* A model of smoke_layer.ipynb: the mortality calculator, the country     *)
(* aggregator and the notebook's code cells run in order.                  *)
(*                                                                         *)
(* Numbers.  A raster cell holds a float; here it is an integer or NaN.    *)
(* The concentration-response factor 1 - exp(-1.1 c) is kept in            *)
(* thousandths (fixed point), so a mortality value is in thousandths of a  *)
(* death.  Rounding of floating-point sums is not modelled.                *)
(***************************************************************************)
EXTENDS Integers, Sequences, FiniteSets, TLC

VARIABLES
    pc,         \* position of the run: the next cell, "done" or "halted"
    files,      \* the data directory: file key -> raster or Missing
    shapefile,  \* the Natural Earth admin_0_countries records, in file order
    env,        \* the notebook's global variables: name -> value or Unset
    csv,        \* the CSV files written so far: file name -> series
    raised,     \* the exception that stopped the run, or None
    args,       \* the arguments of a direct call of a helper function
    ret,        \* the value that call returned, or Unset
    session     \* the kernel's session: the number of the run under way and
                \* the global variables as they were when it began

vars == <<pc, files, shapefile, env, csv, raised, args, ret, session>>

----------------------------------------------------------------------------
(* Python values *)

Unset == [k |-> "unset"]
None == [k |-> "None"]
Missing == [k |-> "missing"]
Exc(name) == [k |-> "exception", type |-> name]
IsExc(v) == v.k = "exception"
IsRaster(v) == v.k = "raster"
IsSeries(v) == v.k = "series"

(* Floats: a number, NaN, or an infinity with its sign in v (1 or -1) *)
NaN == [k |-> "nan", v |-> 0]
Num(n) == [k |-> "num", v |-> n]
Inf(sign) == [k |-> "inf", v |-> sign]
IsNaN(x) == x.k = "nan"
IsInf(x) == x.k = "inf"
Sign(n) == IF n > 0 THEN 1 ELSE IF n < 0 THEN -1 ELSE 0

\* IEEE 754: a NaN operand gives NaN, 0 * inf and inf - inf give NaN
VMul(x, y) ==
    IF IsNaN(x) \/ IsNaN(y) THEN NaN
    ELSE IF IsInf(x) \/ IsInf(y)
         THEN (IF x.v = 0 \/ y.v = 0 THEN NaN ELSE Inf(Sign(x.v) * Sign(y.v)))
    ELSE Num(x.v * y.v)
VNeg(x) == IF IsNaN(x) THEN NaN ELSE IF IsInf(x) THEN Inf(-x.v) ELSE Num(-x.v)
VAdd(x, y) ==
    IF IsNaN(x) \/ IsNaN(y) THEN NaN
    ELSE IF IsInf(x) /\ IsInf(y) THEN (IF x.v = y.v THEN x ELSE NaN)
    ELSE IF IsInf(x) THEN x
    ELSE IF IsInf(y) THEN y
    ELSE Num(x.v + y.v)
VSub(x, y) == VAdd(x, VNeg(y))
\* x / d for a d that divides x (the model's rates are multiples of d)
VDiv(x, d) == IF IsNaN(x) \/ IsInf(x) THEN x ELSE Num(x.v \div d)

----------------------------------------------------------------------------
(* Sequences *)

Range(s) == {s[i] : i \in DOMAIN s}
IndexOf(s, x) == CHOOSE i \in DOMAIN s : s[i] = x
Min(a, b) == IF a <= b THEN a ELSE b
IsStrictlyIncreasing(s) == \A i \in 1..(Len(s) - 1) : s[i] < s[i + 1]

\* all strictly increasing non-empty sequences over the set S of integers
RECURSIVE SortedSeqOf(_)
SortedSeqOf(S) ==
    IF S = {} THEN <<>>
    ELSE LET m == CHOOSE x \in S : \A y \in S : x <= y
         IN <<m>> \o SortedSeqOf(S \ {m})
CoordArrays(S) == {SortedSeqOf(T) : T \in (SUBSET S) \ {{}}}

\* all sequences over S of length at most n
SeqsUpTo(S, n) == UNION {[1..m -> S] : m \in 0..n}

----------------------------------------------------------------------------
(* Rasters: an xarray.DataArray over the dimensions lat and lon.  vals is   *)
(* indexed by <<position in lat, position in lon>>; dims is the order of    *)
(* the two dimensions in memory, which decides the order of values.ravel().*)

LatLon == <<"lat", "lon">>
LonLat == <<"lon", "lat">>

Cells(lat, lon) == (1..Len(lat)) \X (1..Len(lon))
Raster(dims, lat, lon, vals) ==
    [k |-> "raster", dims |-> dims, lat |-> lat, lon |-> lon, vals |-> vals]
RastersOn(dims, lat, lon, V) ==
    {Raster(dims, lat, lon, f) : f \in [Cells(lat, lon) -> V]}

\* the value stored at the coordinate labels (la, lo)
At(r, la, lo) == r.vals[<<IndexOf(r.lat, la), IndexOf(r.lon, lo)>>]

SameGrid(a, b) == a.lat = b.lat /\ a.lon = b.lon

\* xarray's alignment of two index coordinates (arithmetic_join = "inner"):
\* equal indexes are kept, unequal ones are intersected in the left order
InnerJoin(a, b) ==
    IF a = b THEN a ELSE SelectSeq(a, LAMBDA x : x \in Range(b))

\* a * b and a - b on two DataArrays: the operands are aligned on their
\* coordinate labels and combined label by label; the result keeps the
\* dimension order of the left operand
xr_mul(a, b) ==
    LET lat == InnerJoin(a.lat, b.lat)
        lon == InnerJoin(a.lon, b.lon)
    IN Raster(a.dims, lat, lon,
              [p \in Cells(lat, lon) |->
                  VMul(At(a, lat[p[1]], lon[p[2]]), At(b, lat[p[1]], lon[p[2]]))])

xr_sub(a, b) ==
    LET lat == InnerJoin(a.lat, b.lat)
        lon == InnerJoin(a.lon, b.lon)
    IN Raster(a.dims, lat, lon,
              [p \in Cells(lat, lon) |->
                  VSub(At(a, lat[p[1]], lon[p[2]]), At(b, lat[p[1]], lon[p[2]]))])

----------------------------------------------------------------------------
(* The mortality calculator *)

\* the constant of the concentration-response function, in tenths: 1.1
K10 == 11

\* round(1000 * exp(t / 10)) for the exponents the model reaches
ExpMilli(t) ==
    CASE t = 0 -> 1000
      [] t = 10 -> 2718
      [] t = 11 -> 3004
      [] t = -10 -> 368
      [] t = -11 -> 333
      [] t = -20 -> 135
      [] t = -22 -> 111
      [] t = -30 -> 50
      [] t = -33 -> 37
      [] t = -40 -> 18
      [] t = -44 -> 12
      [] t = -110 -> 0

\* a mutant that clamps a negative concentration to 0
ResponseClamped(c) ==
    IF IsNaN(c) THEN NaN
    ELSE IF IsInf(c) THEN Num(IF c.v > 0 THEN 1000 ELSE 0)
    ELSE Num(1000 - ExpMilli(-(K10 * (IF c.v < 0 THEN 0 ELSE c.v))))

\* a mutant that fills a missing concentration with 0 (pm25.fillna(0))
ResponseFillNa(c) ==
    IF IsNaN(c) THEN Num(0)
    ELSE IF IsInf(c) THEN (IF c.v > 0 THEN Num(1000) ELSE Inf(-1))
    ELSE Num(1000 - ExpMilli(-(K10 * c.v)))

\* a mutant that leaves out the "1 -": np.exp(-1.1 * c)
ResponseSurvival(c) ==
    IF IsNaN(c) THEN NaN
    ELSE IF IsInf(c) THEN (IF c.v > 0 THEN Num(0) ELSE Inf(1))
    ELSE Num(ExpMilli(-(K10 * c.v)))

\* 1 - np.exp(-1.1 * c), in thousandths; exp(-inf) is 0 and exp(inf) is inf
Response(c) ==
    IF IsNaN(c) THEN NaN
    ELSE IF IsInf(c) THEN (IF c.v > 0 THEN Num(1000) ELSE Inf(-1))
    ELSE Num(1000 - ExpMilli(-(K10 * c.v)))

\* the elementwise 1 - np.exp(-1.1 * pm25) of a DataArray
response_raster(pm25) ==
    Raster(pm25.dims, pm25.lat, pm25.lon,
           [p \in DOMAIN pm25.vals |-> Response(pm25.vals[p])])

\* a mutant that leaves the rate out of the product
mortality_without_rate(pm25, b, population) ==
    xr_mul(response_raster(pm25), population)

\* temp_ds = b * (1 - np.exp(-1.1 * pm25)) * population
mortality(pm25, b, population) ==
    xr_mul(xr_mul(b, response_raster(pm25)), population)

----------------------------------------------------------------------------
(* Direct calls of mortality: every triple of rasters on one row of cells   *)
(* whose longitudes are drawn from 0..MaxCoord.                            *)

MaxCoord == 1

NoNotebook ==
    /\ files = <<>>
    /\ shapefile = <<>>
    /\ env = <<>>
    /\ csv = <<>>
    /\ raised = None
    /\ session = <<>>

ConcValues == {Num(-1), Num(2), NaN}
RateValues == {Num(0), Num(2), NaN}
PopValues == {Num(0), Num(3), NaN, Inf(1)}

RowRasters(V) ==
    UNION {RastersOn(LatLon, <<0>>, lon, V) : lon \in CoordArrays(0..MaxCoord)}

InitMortality ==
    /\ NoNotebook
    /\ pc = "call"
    /\ ret = Unset
    /\ args \in [pm25 : RowRasters(ConcValues), b : RowRasters(RateValues),
                 population : RowRasters(PopValues)]

CallMortality ==
    /\ pc = "call"
    /\ ret' = mortality(args.pm25, args.b, args.population)
    /\ pc' = "returned"
    /\ UNCHANGED <<files, shapefile, env, csv, raised, args, session>>

NextMortality == CallMortality

SpecMortality == InitMortality /\ [][NextMortality]_vars

\* the three arguments of the call share their coordinate arrays
ArgsOnOneGrid ==
    /\ SameGrid(args.pm25, args.b)
    /\ SameGrid(args.pm25, args.population)

\* C1: on three rasters of one grid, mortality returns a raster on that grid
\* whose value at every cell is rate * (1 - exp(-1.1 * concentration)) *
\* population of the same cell, the concentration taken as it is (a negative
\* one is not clamped) and the result not clamped either.
C1_MortalityFormula ==
    (pc = "returned" /\ ArgsOnOneGrid) =>
        /\ IsRaster(ret)
        /\ SameGrid(ret, args.pm25)
        /\ \A p \in DOMAIN args.pm25.vals :
              LET c == args.pm25.vals[p]
                  r == args.b.vals[p]
                  n == args.population.vals[p]
              IN ret.vals[p] =
                    IF IsNaN(c) \/ IsNaN(r) \/ IsNaN(n) THEN NaN
                    ELSE VMul(Num(r.v * (1000 - ExpMilli(-(11 * c.v)))), n)

\* a call on one grid with a negative concentration in a cell whose rate and
\* population are not 0: the result there is negative
C1_Witness ==
    /\ pc = "returned"
    /\ ArgsOnOneGrid
    /\ \E p \in DOMAIN args.pm25.vals :
          /\ args.pm25.vals[p] = Num(-1)
          /\ args.b.vals[p] = Num(2)
          /\ args.population.vals[p] = Num(3)
          /\ ret.vals[p] = Num(2 * (-2004) * 3)

\* C7: when the coordinate arrays of the three rasters differ in length or
\* in value, mortality fails with a ShapeMismatchError and returns no raster.
C7_MismatchRaises ==
    (pc = "returned" /\ ~ArgsOnOneGrid) =>
        (IsExc(ret) /\ ret.type = "ShapeMismatchError")

\* the argument raster r holds the number 0 in every cell
AllZero(r) == \A p \in DOMAIN r.vals : r.vals[p] = Num(0)

\* C16 (as stated): on one grid, a rate of 0 in every cell gives a mortality of
\* 0 in every cell, and so does a population of 0 in every cell, whatever the
\* other two rasters hold, NaN and infinite values included.
C16_ZeroRateOrPopulation ==
    (pc = "returned" /\ ArgsOnOneGrid /\ (AllZero(args.b) \/ AllZero(args.population)))
        => \A p \in DOMAIN ret.vals : ret.vals[p] = Num(0)

\* C16 (amended): with a rate of 0 in every cell, or a population of 0 in
\* every cell, mortality is 0 in each cell where the other two values are
\* finite numbers, and NaN in each cell where one of them is NaN or infinite.
C16_ZeroWhereFinite ==
    (pc = "returned" /\ ArgsOnOneGrid) =>
        /\ AllZero(args.b) =>
              \A p \in DOMAIN ret.vals :
                  ret.vals[p] =
                      IF args.pm25.vals[p].k = "num" /\ args.population.vals[p].k = "num"
                      THEN Num(0) ELSE NaN
        /\ AllZero(args.population) =>
              \A p \in DOMAIN ret.vals :
                  ret.vals[p] =
                      IF args.pm25.vals[p].k = "num" /\ args.b.vals[p].k = "num"
                      THEN Num(0) ELSE NaN

\* a call with a rate of 0 in both cells of a row: 0 where concentration and
\* population are numbers, NaN where the population is infinite
C16_Witness ==
    /\ pc = "returned"
    /\ ArgsOnOneGrid
    /\ AllZero(args.b)
    /\ \E p, q \in DOMAIN ret.vals :
          /\ args.pm25.vals[p] = Num(2) /\ args.population.vals[p] = Num(3)
          /\ ret.vals[p] = Num(0)
          /\ args.pm25.vals[q] = Num(2) /\ args.population.vals[q] = Inf(1)
          /\ IsNaN(ret.vals[q])

\* one of the three arguments is NaN in the cell p
NaNInput(p) ==
    IsNaN(args.pm25.vals[p]) \/ IsNaN(args.b.vals[p]) \/ IsNaN(args.population.vals[p])

\* the three arguments hold the same values in the cells p and q
SameInputs(p, q) ==
    /\ args.pm25.vals[p] = args.pm25.vals[q]
    /\ args.b.vals[p] = args.b.vals[q]
    /\ args.population.vals[p] = args.population.vals[q]

\* C17 (as stated): the result is NaN in a cell exactly when one of the three
\* arguments is NaN in that cell, and the result in a cell does not depend on
\* the other cells.
C17_NaNIffInputNaN ==
    (pc = "returned" /\ ArgsOnOneGrid) =>
        /\ \A p \in DOMAIN ret.vals : IsNaN(ret.vals[p]) <=> NaNInput(p)
        /\ \A p, q \in DOMAIN ret.vals : SameInputs(p, q) => ret.vals[p] = ret.vals[q]

\* C17 (amended): a NaN argument in a cell gives NaN in that cell; the result
\* is NaN in a cell exactly when an argument is NaN there or the product
\* multiplies 0 by an infinite factor there; and the result in a cell does not
\* depend on the other cells.
C17_NaNCellwise ==
    (pc = "returned" /\ ArgsOnOneGrid) =>
        /\ \A p \in DOMAIN ret.vals :
              IsNaN(ret.vals[p]) <=>
                  \/ NaNInput(p)
                  \/ /\ IsInf(args.population.vals[p])
                     /\ args.b.vals[p].v * (1000 - ExpMilli(-(11 * args.pm25.vals[p].v))) = 0
        /\ \A p, q \in DOMAIN ret.vals : SameInputs(p, q) => ret.vals[p] = ret.vals[q]

\* a row with a NaN concentration in one cell and numbers in the other: NaN
\* in the first, a number in the second
C17_Witness ==
    /\ pc = "returned"
    /\ ArgsOnOneGrid
    /\ \E p, q \in DOMAIN ret.vals :
          /\ IsNaN(args.pm25.vals[p]) /\ IsNaN(ret.vals[p])
          /\ ~NaNInput(q) /\ ret.vals[q] = Num(2 * 889 * 3)

----------------------------------------------------------------------------
(* The country aggregator *)

\* a country polygon: the rectangle with corners (x0, y0) and (x1, y1),
\* x the longitude and y the latitude
Box(x0, x1, y0, y1) == [x0 |-> x0, x1 |-> x1, y0 |-> y0, y1 |-> y1]
Point(lon, lat) == [x |-> lon, y |-> lat]

\* the point lies in the interior of the polygon
InInterior(poly, pt) ==
    /\ poly.x0 < pt.x /\ pt.x < poly.x1
    /\ poly.y0 < pt.y /\ pt.y < poly.y1

\* the point lies in the closed polygon: in its interior or on its boundary
InClosure(poly, pt) ==
    /\ poly.x0 <= pt.x /\ pt.x <= poly.x1
    /\ poly.y0 <= pt.y /\ pt.y <= poly.y1

\* a mutant: shapely's covers, which counts a point of the boundary
covers(poly, pt) == InClosure(poly, pt)

\* shapely's polygon.contains(point): true of the points of the interior only
contains(poly, pt) == InInterior(poly, pt)

\* a record of the shapefile: cartopy's Record, its attributes and geometry
Rec(name, geom) == [attributes |-> [NAME |-> name], geometry |-> geom]

\* np.meshgrid(lats, lons, indexing="ij"), both raveled and zipped into
\* Point(lon, lat): the points in latitude-major order
meshgrid_points(lats, lons) ==
    [k \in 1..(Len(lats) * Len(lons)) |->
        Point(lons[((k - 1) % Len(lons)) + 1], lats[((k - 1) \div Len(lons)) + 1])]

\* data.values.ravel(): the values in the order of the array's dimensions
ravel(data) ==
    [k \in 1..(Len(data.lat) * Len(data.lon)) |->
        IF data.dims = LatLon
        THEN data.vals[<<((k - 1) \div Len(data.lon)) + 1, ((k - 1) % Len(data.lon)) + 1>>]
        ELSE data.vals[<<((k - 1) % Len(data.lat)) + 1, ((k - 1) \div Len(data.lat)) + 1>>]]

\* values[mask]: the values at the positions where the mask is true
RECURSIVE bool_index(_, _)
bool_index(values, mask) ==
    IF values = <<>> THEN <<>>
    ELSE (IF Head(mask) THEN <<Head(values)>> ELSE <<>>)
         \o bool_index(Tail(values), Tail(mask))

\* a mutant: np.sum, which a NaN turns into NaN
RECURSIVE np_sum(_)
np_sum(values) ==
    IF values = <<>> THEN Num(0) ELSE VAdd(Head(values), np_sum(Tail(values)))

\* np.nansum: the sum with every NaN taken as 0; 0 for no value at all
RECURSIVE nansum(_)
nansum(values) ==
    IF values = <<>> THEN Num(0)
    ELSE VAdd(IF IsNaN(Head(values)) THEN Num(0) ELSE Head(values),
              nansum(Tail(values)))

\* pd.Series(values, index=index)
Series(index, values) == [k |-> "series", index |-> index, values |-> values]

\* sum_within_country(data, countries); country_info is read from the
\* shapefile inside the function, and zip stops at the shorter sequence
sum_within_country(data, countries) ==
    LET country_info == shapefile
        n == Min(Len(countries), Len(country_info))
        points == meshgrid_points(data.lat, data.lon)
        inside_country(i) == [k \in DOMAIN points |-> contains(countries[i], points[k])]
        inside_values(i) == bool_index(ravel(data), inside_country(i))
    IN Series([i \in 1..n |-> country_info[i].attributes.NAME],
              [i \in 1..n |-> nansum(inside_values(i))])

----------------------------------------------------------------------------
(* Direct calls of sum_within_country: every raster on the 2 x 2 grid, in   *)
(* either dimension order, every list of at most MaxCountries polygons and *)
(* every shapefile of at most MaxCountries records.                        *)

MaxCountries == 2

World == Box(-1, 2, -1, 2)      \* every cell center in its interior
WestHalf == Box(-1, 1, -1, 2)   \* lon 0 inside, lon 1 on its boundary
SouthEast == Box(0, 2, -1, 1)   \* only (lat 0, lon 1) inside, the rest on its boundary
Nowhere == Box(5, 6, 5, 6)      \* no cell center in it or on it
Polygons == {World, WestHalf, SouthEast, Nowhere}

Records == {Rec("A", World), Rec("B", WestHalf), Rec("A", SouthEast)}

CellValues == {Num(1), Num(2), NaN}
GridRasters ==
    RastersOn(LatLon, <<0, 1>>, <<0, 1>>, CellValues)
        \cup RastersOn(LonLat, <<0, 1>>, <<0, 1>>, CellValues)

InitAggregate ==
    /\ files = <<>>
    /\ env = <<>>
    /\ csv = <<>>
    /\ raised = None
    /\ session = <<>>
    /\ pc = "call"
    /\ ret = Unset
    /\ shapefile \in SeqsUpTo(Records, MaxCountries)
    /\ \A i, j \in DOMAIN shapefile : shapefile[i] = shapefile[j] => i = j
    /\ args \in [data : GridRasters, countries : SeqsUpTo(Polygons, MaxCountries)]

CallSumWithinCountry ==
    /\ pc = "call"
    /\ ret' = sum_within_country(args.data, args.countries)
    /\ pc' = "returned"
    /\ UNCHANGED <<files, shapefile, env, csv, raised, args, session>>

NextAggregate == CallSumWithinCountry

SpecAggregate == InitAggregate /\ [][NextAggregate]_vars

\* the cell centers of the raster, as <<position in lat, position in lon>>
CellCenter(data, p) == Point(data.lon[p[2]], data.lat[p[1]])

\* the sum of the numbers (not NaN) stored in the cells of the set P
RECURSIVE SumOfCells(_, _)
SumOfCells(data, P) ==
    IF P = {} THEN 0
    ELSE LET p == CHOOSE q \in P : TRUE
         IN (IF IsNaN(data.vals[p]) THEN 0 ELSE data.vals[p].v)
            + SumOfCells(data, P \ {p})

InteriorCells(data, poly) ==
    {p \in DOMAIN data.vals : InInterior(poly, CellCenter(data, p))}
ClosureCells(data, poly) ==
    {p \in DOMAIN data.vals : InClosure(poly, CellCenter(data, p))}

\* the call returned a series for a raster stored latitude-major
ReturnedLatLon == pc = "returned" /\ IsSeries(ret) /\ args.data.dims = LatLon

\* C3 (as stated): a cell is counted for a country exactly when its center
\* lies in the closed polygon, interior or boundary.
C3_ClosedContainment ==
    ReturnedLatLon =>
        \A i \in DOMAIN ret.values :
            ret.values[i] =
                Num(SumOfCells(args.data, ClosureCells(args.data, args.countries[i])))

\* C3 (amended): for a raster stored latitude-major, a cell is counted for a
\* country exactly when its center lies in the interior of the polygon; a
\* center on the boundary is left out like one outside.
C3_InteriorContainment ==
    ReturnedLatLon =>
        \A i \in DOMAIN ret.values :
            ret.values[i] =
                Num(SumOfCells(args.data, InteriorCells(args.data, args.countries[i])))

\* a country with a numeric cell on its boundary and another in its
\* interior: only the interior one is in its sum
C3_Witness ==
    /\ ReturnedLatLon
    /\ \E i \in DOMAIN ret.values :
          /\ args.countries[i] = WestHalf
          /\ \A p \in DOMAIN args.data.vals : args.data.vals[p] = Num(2)
          /\ ret.values[i] = Num(4)

\* C4: when the polygon list and the record list differ in length,
\* sum_within_country fails with an IndexAlignmentError; it returns no result
\* for the first min(len(geometries), len(records)) countries.
C4_LengthMismatchRaises ==
    (pc = "returned" /\ Len(args.countries) # Len(shapefile)) =>
        (IsExc(ret) /\ ret.type = "IndexAlignmentError")

\* C5: the result has exactly one entry per input country, in input order,
\* the i-th keyed by the name of the i-th record, and no name is a key twice
\* (stated for the calls whose two sequences have one length).
C5_OneEntryPerName ==
    (pc = "returned" /\ Len(args.countries) = Len(shapefile)) =>
        /\ IsSeries(ret)
        /\ Len(ret.index) = Len(args.countries)
        /\ \A i \in DOMAIN ret.index : ret.index[i] = shapefile[i].attributes.NAME
        /\ \A i, j \in DOMAIN ret.index : ret.index[i] = ret.index[j] => i = j

PartitionsGrid(data, countries) ==
    \A p \in DOMAIN data.vals :
        Cardinality({i \in DOMAIN countries :
                        InClosure(countries[i], CellCenter(data, p))}) = 1

\* C18: when the polygons partition the grid, the per-country totals add up
\* to the sum of all cells of the raster that are not NaN.
C18_PartitionTotal ==
    (pc = "returned" /\ PartitionsGrid(args.data, args.countries)) =>
        /\ IsSeries(ret)
        /\ nansum(ret.values) = Num(SumOfCells(args.data, DOMAIN args.data.vals))

\* C23: the k-th value of the flattened raster is the value stored at the
\* k-th point of the latitude-major meshgrid, so in either dimension order of
\* the raster each country's sum is the sum of the values stored at the cell
\* centers inside it.
C23_ValueAtOwnCenter ==
    pc = "returned" =>
        LET points == meshgrid_points(args.data.lat, args.data.lon)
        IN /\ \A k \in DOMAIN points :
                 ravel(args.data)[k] = At(args.data, points[k].y, points[k].x)
           /\ IsSeries(ret) =>
                 \A i \in DOMAIN ret.values :
                     ret.values[i] =
                         Num(SumOfCells(args.data,
                                        InteriorCells(args.data, args.countries[i])))

----------------------------------------------------------------------------
(* The end-to-end scenario on the 2 x 2 grid: mortality of a concentration *)
(* of 10 in the cell (lat 0, lon 0) and 0 elsewhere, a rate of 0.01 and a  *)
(* population of 1000 in every cell, then sum_within_country of the result *)
(* over the one polygon of a shapefile of one country, a polygon that      *)
(* covers the grid.  The rate is kept in hundredths, so a mortality value  *)
(* is in hundred-thousandths of a death.  Each of the three rasters is     *)
(* stored in either dimension order.                                       *)

TestGrid(dims, v11, v12, v21, v22) ==
    Raster(dims, <<0, 1>>, <<0, 1>>,
           (<<1, 1>> :> v11) @@ (<<1, 2>> :> v12) @@ (<<2, 1>> :> v21) @@ (<<2, 2>> :> v22))

Concentration(dims) == TestGrid(dims, Num(10), Num(0), Num(0), Num(0))
UniformRate(dims) == TestGrid(dims, Num(1), Num(1), Num(1), Num(1))
UniformPopulation(dims) == TestGrid(dims, Num(1000), Num(1000), Num(1000), Num(1000))

UnitSquare == Box(0, 1, 0, 1)     \* every cell center on its boundary
NorthEast == Box(0, 2, 0, 2)      \* only (lat 1, lon 1) inside
SouthWest == Box(-1, 1, -1, 1)    \* only (lat 0, lon 0) inside

\* the polygons that cover the grid: every cell center in them or on their edge
CoveringPolygons ==
    {poly \in Polygons \cup {UnitSquare, NorthEast, SouthWest} :
        \A p \in Cells(<<0, 1>>, <<0, 1>>) : InClosure(poly, Point(p[2] - 1, p[1] - 1))}

CountryNames == {"A", "B"}

InitEndToEnd ==
    /\ files = <<>>
    /\ env = <<>>
    /\ csv = <<>>
    /\ raised = None
    /\ session = <<>>
    /\ pc = "call"
    /\ ret = Unset
    /\ \E poly \in CoveringPolygons, name \in CountryNames :
          /\ shapefile = <<Rec(name, poly)>>
          /\ \E d1, d2, d3 \in {LatLon, LonLat} :
                args = [pm25 |-> Concentration(d1), b |-> UniformRate(d2),
                        population |-> UniformPopulation(d3),
                        countries |-> <<poly>>]

\* sum_within_country(m, countries) on the raster m that mortality returned
AggregateMortality ==
    /\ pc = "returned"
    /\ IsRaster(ret)
    /\ args' = [data |-> ret, countries |-> args.countries]
    /\ ret' = sum_within_country(ret, args.countries)
    /\ pc' = "aggregated"
    /\ UNCHANGED <<files, shapefile, env, csv, raised, session>>

NextEndToEnd == CallMortality \/ AggregateMortality

SpecEndToEnd == InitEndToEnd /\ [][NextEndToEnd]_vars

\* mortality returned a raster that is not 0 in the cell (lat 0, lon 0) and
\* exactly 0 in the three other cells
OnlyFirstCellNonzero ==
    pc = "returned" =>
        /\ IsRaster(ret)
        /\ ret.lat = <<0, 1>> /\ ret.lon = <<0, 1>>
        /\ ret.vals[<<1, 1>>].k = "num" /\ ret.vals[<<1, 1>>].v # 0
        /\ \A p \in DOMAIN ret.vals \ {<<1, 1>>} : ret.vals[p] = Num(0)

\* C21 (as stated): in the end-to-end scenario mortality is not 0 in the cell
\* (0, 0) and exactly 0 in the three others, and the total over one polygon
\* that covers the grid, cell centers on its edge included, is the value of
\* the cell (0, 0).
C21_EndToEnd ==
    /\ OnlyFirstCellNonzero
    /\ pc = "aggregated" =>
          /\ IsSeries(ret)
          /\ Len(ret.values) = 1
          /\ ret.values[1] = args.data.vals[<<1, 1>>]

\* C21 (amended): the same mortality raster; the total over the polygon is
\* the value of the cell (0, 0) when the center of that cell lies in the
\* polygon's interior, and 0 when it lies on the polygon's edge.
C21_EndToEndInterior ==
    /\ OnlyFirstCellNonzero
    /\ pc = "aggregated" =>
          /\ IsSeries(ret)
          /\ Len(ret.values) = 1
          /\ ret.index[1] = shapefile[1].attributes.NAME
          /\ ret.values[1] =
                IF InInterior(args.countries[1], Point(0, 0))
                THEN args.data.vals[<<1, 1>>]
                ELSE Num(0)

\* the total over a polygon with the centers at lon 1 on its edge and the
\* cell (0, 0) inside: 0.01 * (1 - exp(-11)) * 1000
C21_Witness ==
    /\ pc = "aggregated"
    /\ args.countries = <<WestHalf>>
    /\ args.data.vals[<<1, 1>>] = Num(1 * 1000 * 1000)
    /\ ret.values = <<Num(1000000)>>

----------------------------------------------------------------------------
(* The grid normalizer *)

\* a mutant that subtracts 360 from every longitude
adjust_lon_always(l) == l - 360

\* xr.where(lon > 180, lon - 360, lon) on one longitude
adjust_lon(l) == IF l > 180 THEN l - 360 ELSE l

\* the raster has a coordinate named lon_name = 'lon'
HasLon(ds) == "lon" \in DOMAIN ds

\* ds['_longitude_adjusted'] = xr.where(...): the new coordinate of ds
longitude_adjusted(ds) == [i \in DOMAIN ds.lon |-> adjust_lon(ds.lon[i])]

\* a mutant that sorts the longitudes and leaves the values where they were
fix_lon_values_in_place(ds) ==
    LET adjusted == longitude_adjusted(ds)
        sorted == SortedSeqOf(Range(adjusted))
    IN IF ~HasLon(ds) THEN Exc("KeyError")
       ELSE IF Cardinality(Range(adjusted)) # Len(adjusted)
       THEN Exc("InvalidIndexError")
       ELSE Raster(ds.dims, ds.lat, sorted, ds.vals)

\* a mutant that returns a raster without the longitude coordinate as it is
fix_lon_passthrough(ds) ==
    LET adjusted == longitude_adjusted(ds)
        sorted == SortedSeqOf(Range(adjusted))
    IN IF ~HasLon(ds) THEN ds
       ELSE IF Cardinality(Range(adjusted)) # Len(adjusted)
       THEN Exc("InvalidIndexError")
       ELSE Raster(ds.dims, ds.lat, sorted,
                   [p \in Cells(ds.lat, sorted) |->
                       ds.vals[<<p[1], IndexOf(adjusted, sorted[p[2]])>>]])

\* fix_lon(ds), the value it returns: ds['lon'] raises KeyError when ds has
\* no such coordinate; otherwise the longitudes are adjusted and the columns
\* reordered by the sorted adjusted longitudes.  Selecting by label needs the
\* adjusted longitudes to be distinct.
fix_lon(ds) ==
    LET adjusted == longitude_adjusted(ds)
        sorted == SortedSeqOf(Range(adjusted))
    IN IF ~HasLon(ds) THEN Exc("KeyError")
       ELSE IF Cardinality(Range(adjusted)) # Len(adjusted)
       THEN Exc("InvalidIndexError")
       ELSE Raster(ds.dims, ds.lat, sorted,
                   [p \in Cells(ds.lat, sorted) |->
                       ds.vals[<<p[1], IndexOf(adjusted, sorted[p[2]])>>]])

\* fix_lon(ds), what it leaves of the object passed in: the assignment
\* ds['_longitude_adjusted'] = ... adds a coordinate to the caller's object;
\* the later steps work on new objects
ds_after_fix_lon(ds) ==
    IF ~HasLon(ds) THEN ds
    ELSE ("_longitude_adjusted" :> longitude_adjusted(ds)) @@ ds

----------------------------------------------------------------------------
(* Direct calls of fix_lon: every raster of two rows over at most MaxLons   *)
(* of the longitudes LonValues, and rasters whose longitude coordinate has *)
(* another name; then fix_lon again on the raster the first call returned. *)
(* env.ds is the object the caller holds, args.ds its value at the call.   *)

MaxLons == 3
LonValues == {-90, 0, 180, 270, 360}

LonArrays == {lon \in CoordArrays(LonValues) : Len(lon) <= MaxLons}

\* a raster whose longitude coordinate is named 'longitude'
OtherLonName(r) ==
    [k |-> "raster", dims |-> <<"lat", "longitude">>, lat |-> r.lat, longitude |-> r.lon,
     vals |-> r.vals]

FixLonInputs ==
    UNION {RastersOn(LatLon, <<0, 1>>, lon, CellValues) : lon \in LonArrays}
        \cup {OtherLonName(r) : r \in RastersOn(LatLon, <<0, 1>>, <<270>>, CellValues)}

InitFixLon ==
    /\ files = <<>>
    /\ shapefile = <<>>
    /\ csv = <<>>
    /\ raised = None
    /\ session = <<>>
    /\ pc = "call"
    /\ ret = Unset
    /\ \E r \in FixLonInputs :
          /\ args = [ds |-> r]
          /\ env = [ds |-> r]

\* out = fix_lon(ds)
CallFixLon ==
    /\ pc = "call"
    /\ ret' = fix_lon(args.ds)
    /\ env' = [env EXCEPT !.ds = ds_after_fix_lon(args.ds)]
    /\ pc' = IF IsExc(fix_lon(args.ds)) THEN "raised" ELSE "returned"
    /\ raised' = IF IsExc(fix_lon(args.ds)) THEN fix_lon(args.ds) ELSE None
    /\ UNCHANGED <<files, shapefile, csv, args, session>>

\* out2 = fix_lon(out)
CallFixLonAgain ==
    /\ pc = "returned"
    /\ args' = [ds |-> ret, original |-> args.ds]
    /\ ret' = fix_lon(ret)
    /\ env' = [env EXCEPT !.ds = ds_after_fix_lon(ret)]
    /\ pc' = IF IsExc(fix_lon(ret)) THEN "raised_again" ELSE "returned_again"
    /\ raised' = IF IsExc(fix_lon(ret)) THEN fix_lon(ret) ELSE None
    /\ UNCHANGED <<files, shapefile, csv, session>>

NextFixLon == CallFixLon \/ CallFixLonAgain

SpecFixLon == InitFixLon /\ [][NextFixLon]_vars

\* the first call is over
FirstCallOver == pc \in {"returned", "raised"}

\* C11: every longitude of the raster fix_lon returns lies in [-180, 180),
\* and the longitudes are in ascending order.
C11_HalfOpenRangeSorted ==
    pc = "returned" =>
        /\ \A i \in DOMAIN ret.lon : -180 <= ret.lon[i] /\ ret.lon[i] < 180
        /\ IsStrictlyIncreasing(ret.lon)

\* out is ds relabeled: the same latitudes, as many longitudes, and each
\* column of ds found in out, with its values, at a longitude that differs
\* from its own by a multiple of 360
Relabeled(ds, out) ==
    /\ IsRaster(out)
    /\ out.lat = ds.lat
    /\ Len(out.lon) = Len(ds.lon)
    /\ DOMAIN out.vals = DOMAIN ds.vals
    /\ \A j \in DOMAIN ds.lon :
          \E j2 \in DOMAIN out.lon :
              /\ (out.lon[j2] - ds.lon[j]) % 360 = 0
              /\ \A i \in DOMAIN ds.lat : out.vals[<<i, j2>>] = ds.vals[<<i, j>>]

\* no longitude above 180 is 360 more than another longitude of the raster
NormalizedDistinct(ds) ==
    \A i, j \in DOMAIN ds.lon : ~(ds.lon[i] > 180 /\ ds.lon[i] - 360 = ds.lon[j])

\* C12 (as stated): for every raster with a longitude coordinate, fix_lon
\* returns a relabeling of it: as many cells, each value at the longitude its
\* own normalizes to, none dropped or duplicated.
C12_PureRelabeling ==
    (FirstCallOver /\ HasLon(args.ds)) => Relabeled(args.ds, ret)

\* C12 (amended): the same, for the rasters whose longitudes stay pairwise
\* distinct under normalization.
C12_RelabelingWhenDistinct ==
    (FirstCallOver /\ HasLon(args.ds) /\ NormalizedDistinct(args.ds))
        => Relabeled(args.ds, ret)

\* the columns at longitudes 0 and 270 come back at 0 and -90, swapped
C12_Witness ==
    /\ pc = "returned"
    /\ args.ds.lon = <<0, 270>>
    /\ args.ds.vals[<<1, 1>>] = Num(1) /\ args.ds.vals[<<1, 2>>] = Num(2)
    /\ ret.lon = <<-90, 0>>
    /\ ret.vals[<<1, 1>>] = Num(2) /\ ret.vals[<<1, 2>>] = Num(1)

\* C13: fix_lon on the raster fix_lon returned gives the same longitudes and
\* the same value in every cell, and does not fail.
C13_Idempotent ==
    /\ pc # "raised_again"
    /\ pc = "returned_again" =>
          /\ IsRaster(ret)
          /\ ret.lat = args.ds.lat
          /\ ret.lon = args.ds.lon
          /\ ret.vals = args.ds.vals

\* the second call on the raster that the first call reordered
C13_Witness ==
    /\ pc = "returned_again"
    /\ args.original.lon = <<0, 270>>
    /\ args.original.vals[<<1, 1>>] = Num(1) /\ args.original.vals[<<1, 2>>] = Num(2)
    /\ ret.lon = <<-90, 0>>
    /\ ret.vals[<<1, 1>>] = Num(2) /\ ret.vals[<<1, 2>>] = Num(1)

\* C14: after the call the object passed in has the coordinates, dimensions
\* and values it had at the call.
C14_InputNotMutated ==
    FirstCallOver => (DOMAIN env.ds = DOMAIN args.ds /\ env.ds = args.ds)

----------------------------------------------------------------------------
(* The notebook.  A cell is a sequence of statements over the run state    *)
(* s = [env, csv, exc]: the global variables, the CSV files written and    *)
(* the exception in flight (None when there is none).  A statement does    *)
(* nothing once an exception is in flight.                                 *)

\* a Python list held in a variable
List(items) == [k |-> "list", items |-> items]

IsNone(v) == v.k = "None"
IsUnset(v) == v.k = "unset"
Raise(s, name) == [s EXCEPT !.exc = Exc(name)]

Years == {"2000", "2050", "2100"}
BaselineFile(y) == "pm25_" \o y
NoFireFile(y) == "pm25_" \o y \o "_nofire"
PopFile(y) == "pop_" \o y
FileKeys ==
    {BaselineFile(y) : y \in Years} \cup {NoFireFile(y) : y \in Years}
        \cup {PopFile(y) : y \in Years} \cup {"death_rate"}

VarNames ==
    {"death_rate", "countries", "country_info", "change_2000_2050",
     "change_2050_2100", "change_2000_2100"}
        \cup UNION {{"baseline_pm25_" \o y, "nofire_pm25_" \o y, "population_" \o y,
                     "baseline_mortality_" \o y, "nofire_mortality_" \o y,
                     "difference_mortality_" \o y, "baseline_sums_" \o y,
                     "nofire_sums_" \o y, "difference_sums_" \o y} : y \in Years}

\* xr.open_dataset(path)[name]: the file's raster (for PM2.5 its mean over
\* time), or a FileNotFoundError
open_dataset(fs, key) ==
    IF fs[key].k = "missing" THEN Exc("FileNotFoundError") ELSE fs[key]

\* a mutant that leaves the rate per 1000 people
per_thousand(r) == r

\* death_rate / 1000
per_person(r) ==
    Raster(r.dims, r.lat, r.lon, [p \in DOMAIN r.vals |-> VDiv(r.vals[p], 1000)])

\* the body of a try block that loads the two PM2.5 rasters of a year and
\* then normalizes both; what was assigned before a failure stays assigned
load_pm25_pair(s, fs, y) ==
    LET vb == "baseline_pm25_" \o y
        vn == "nofire_pm25_" \o y
        b == open_dataset(fs, BaselineFile(y))
        n == open_dataset(fs, NoFireFile(y))
    IN IF IsExc(b) THEN Raise(s, b.type)
       ELSE IF IsExc(n) THEN Raise([s EXCEPT !.env[vb] = b], n.type)
       ELSE IF IsExc(fix_lon(b))
            THEN Raise([s EXCEPT !.env[vb] = ds_after_fix_lon(b), !.env[vn] = n],
                       fix_lon(b).type)
       ELSE IF IsExc(fix_lon(n))
            THEN Raise([s EXCEPT !.env[vb] = fix_lon(b), !.env[vn] = ds_after_fix_lon(n)],
                       fix_lon(n).type)
       ELSE [s EXCEPT !.env[vb] = fix_lon(b), !.env[vn] = fix_lon(n)]

\* except Exception as e: print(...)
except_print(s) == [s EXCEPT !.exc = None]

\* the cell "Load PM2.5 data for 2050" and "for 2100": the handler of 2100
\* also sets both variables to None
cell_load_pm25_2050_2100(s, fs) ==
    LET s1 == except_print(load_pm25_pair(s, fs, "2050"))
        t == load_pm25_pair(s1, fs, "2100")
    IN IF IsNone(t.exc) THEN t
       ELSE [except_print(t) EXCEPT !.env["baseline_pm25_2100"] = None,
                                    !.env["nofire_pm25_2100"] = None]

\* the cell "Load PM2.5 data for 2000"
cell_load_pm25_2000(s, fs) == except_print(load_pm25_pair(s, fs, "2000"))

\* name = xr.open_dataset(...)[...]
stmt_open(s, fs, name, key) ==
    IF ~IsNone(s.exc) THEN s
    ELSE IF IsExc(open_dataset(fs, key)) THEN Raise(s, open_dataset(fs, key).type)
    ELSE [s EXCEPT !.env[name] = open_dataset(fs, key)]

\* name = fix_lon(name)
stmt_fix_lon(s, name) ==
    IF ~IsNone(s.exc) THEN s
    ELSE IF IsExc(fix_lon(s.env[name]))
         THEN Raise([s EXCEPT !.env[name] = ds_after_fix_lon(s.env[name])],
                    fix_lon(s.env[name]).type)
    ELSE [s EXCEPT !.env[name] = fix_lon(s.env[name])]

\* name[dim] = baseline_pm25_2050[dim]: the coordinate is overwritten by
\* position; a NameError when baseline_pm25_2050 was never assigned, a
\* ValueError when the lengths differ
stmt_set_coord(s, name, dim) ==
    LET ref == s.env["baseline_pm25_2050"]
    IN IF ~IsNone(s.exc) THEN s
       ELSE IF IsUnset(ref) THEN Raise(s, "NameError")
       ELSE IF dim = "lat"
            THEN (IF Len(ref.lat) # Len(s.env[name].lat) THEN Raise(s, "ValueError")
                  ELSE [s EXCEPT !.env[name].lat = ref.lat])
       ELSE (IF Len(ref.lon) # Len(s.env[name].lon) THEN Raise(s, "ValueError")
             ELSE [s EXCEPT !.env[name].lon = ref.lon])

stmt_align(s, name) == stmt_set_coord(stmt_set_coord(s, name, "lat"), name, "lon")

\* the cell "Load death rate and population data": one try block
cell_load_rate_population(s, fs) ==
    LET s1 == stmt_open(s, fs, "death_rate", "death_rate")
        s2 == IF IsNone(s1.exc)
              THEN [s1 EXCEPT !.env["death_rate"] = per_person(s1.env["death_rate"])]
              ELSE s1
        s3 == stmt_open(s2, fs, "population_2000", PopFile("2000"))
        s4 == stmt_open(s3, fs, "population_2050", PopFile("2050"))
        s5 == stmt_open(s4, fs, "population_2100", PopFile("2100"))
        s6 == stmt_fix_lon(s5, "death_rate")
        s7 == stmt_fix_lon(s6, "population_2000")
        s8 == stmt_fix_lon(s7, "population_2050")
        s9 == stmt_fix_lon(s8, "population_2100")
        s10 == stmt_align(s9, "death_rate")
        s11 == stmt_align(s10, "population_2000")
        s12 == stmt_align(s11, "population_2050")
        s13 == stmt_align(s12, "population_2100")
    IN except_print(s13)

\* target = mortality(pm, b=death_rate, population=pop)
stmt_mortality(s, target, pm, pop) ==
    IF ~IsNone(s.exc) THEN s
    ELSE IF IsUnset(s.env[pm]) \/ IsUnset(s.env["death_rate"]) \/ IsUnset(s.env[pop])
         THEN Raise(s, "NameError")
    ELSE [s EXCEPT !.env[target] =
              mortality(s.env[pm], s.env["death_rate"], s.env[pop])]

\* target = a - b on two rasters
stmt_raster_sub(s, target, a, b) ==
    IF ~IsNone(s.exc) THEN s
    ELSE IF IsUnset(s.env[a]) \/ IsUnset(s.env[b]) THEN Raise(s, "NameError")
    ELSE [s EXCEPT !.env[target] = xr_sub(s.env[a], s.env[b])]

\* the three statements that compute the mortality rasters of a year
stmts_mortality_year(s, y) ==
    LET s1 == stmt_mortality(s, "baseline_mortality_" \o y, "baseline_pm25_" \o y,
                             "population_" \o y)
        s2 == stmt_mortality(s1, "nofire_mortality_" \o y, "nofire_pm25_" \o y,
                             "population_" \o y)
    IN stmt_raster_sub(s2, "difference_mortality_" \o y, "baseline_mortality_" \o y,
                       "nofire_mortality_" \o y)

\* the cell "Calculate mortality for 2050"
cell_mortality_2050(s) == stmts_mortality_year(s, "2050")

\* the cell "Calculate mortality for 2000" and "for 2100 if data is available"
cell_mortality_2000_2100(s) ==
    LET s1 == stmts_mortality_year(s, "2000")
    IN IF ~IsNone(s1.exc) THEN s1
       ELSE IF IsUnset(s1.env["baseline_pm25_2100"]) \/ IsUnset(s1.env["nofire_pm25_2100"])
            THEN Raise(s1, "NameError")
       ELSE IF ~IsNone(s1.env["baseline_pm25_2100"]) /\ ~IsNone(s1.env["nofire_pm25_2100"])
            THEN stmts_mortality_year(s1, "2100")
       ELSE [s1 EXCEPT !.env["baseline_mortality_2100"] = None,
                       !.env["nofire_mortality_2100"] = None,
                       !.env["difference_mortality_2100"] = None]

\* the cell "Load countries shapefile"
cell_load_countries(s) ==
    [s EXCEPT !.env["countries"] = List([i \in DOMAIN shapefile |-> shapefile[i].geometry]),
              !.env["country_info"] = List(shapefile)]

\* a mutant that subtracts the other way round
series_sub_reversed(a, b) ==
    IF a.index = b.index
    THEN Series(a.index, [i \in DOMAIN a.values |-> VSub(b.values[i], a.values[i])])
    ELSE Exc("ValueError")

\* a - b on two pandas Series whose indexes are equal: entry by entry (the
\* notebook's series all come from one shapefile and one polygon list)
series_sub(a, b) ==
    IF a.index = b.index
    THEN Series(a.index, [i \in DOMAIN a.values |-> VSub(a.values[i], b.values[i])])
    ELSE Exc("ValueError")

\* target = sum_within_country(src, countries)
stmt_sums(s, target, src) ==
    IF ~IsNone(s.exc) THEN s
    ELSE IF IsUnset(s.env[src]) \/ IsUnset(s.env["countries"]) THEN Raise(s, "NameError")
    ELSE [s EXCEPT !.env[target] = sum_within_country(s.env[src], s.env["countries"].items)]

\* src.to_csv(os.path.join(output_dir, fname))
stmt_to_csv(s, src, fname) ==
    IF ~IsNone(s.exc) THEN s
    ELSE IF IsUnset(s.env[src]) THEN Raise(s, "NameError")
    ELSE [s EXCEPT !.csv[fname] = s.env[src]]

\* target = a - b on two series
stmt_series_sub(s, target, a, b) ==
    IF ~IsNone(s.exc) THEN s
    ELSE IF IsUnset(s.env[a]) \/ IsUnset(s.env[b]) THEN Raise(s, "NameError")
    ELSE IF IsExc(series_sub(s.env[a], s.env[b]))
         THEN Raise(s, series_sub(s.env[a], s.env[b]).type)
    ELSE [s EXCEPT !.env[target] = series_sub(s.env[a], s.env[b])]

CsvSuffix(y) == IF y = "2050" THEN "" ELSE "_" \o y
CsvNames ==
    UNION {{"total_smoke_deaths" \o CsvSuffix(y), "nofire_smoke_deaths" \o CsvSuffix(y),
            "fire_smoke_deaths" \o CsvSuffix(y)} : y \in Years}
        \cup {"fire_smoke_deaths_change_2000_2050", "fire_smoke_deaths_change_2050_2100",
              "fire_smoke_deaths_change_2000_2100"}

\* the three aggregations of a year, then its three CSV files
stmts_sums_year(s, y) ==
    LET s1 == stmt_sums(s, "baseline_sums_" \o y, "baseline_mortality_" \o y)
        s2 == stmt_sums(s1, "nofire_sums_" \o y, "nofire_mortality_" \o y)
        s3 == stmt_sums(s2, "difference_sums_" \o y, "difference_mortality_" \o y)
        s4 == stmt_to_csv(s3, "baseline_sums_" \o y, "total_smoke_deaths" \o CsvSuffix(y))
        s5 == stmt_to_csv(s4, "nofire_sums_" \o y, "nofire_smoke_deaths" \o CsvSuffix(y))
    IN stmt_to_csv(s5, "difference_sums_" \o y, "fire_smoke_deaths" \o CsvSuffix(y))

\* target = difference_sums_b - difference_sums_a, written to its CSV file
stmts_change(s, a, b) ==
    stmt_to_csv(stmt_series_sub(s, "change_" \o a \o "_" \o b, "difference_sums_" \o b,
                                "difference_sums_" \o a),
                "change_" \o a \o "_" \o b, "fire_smoke_deaths_change_" \o a \o "_" \o b)

\* the cell "Calculate country-level mortality for 2050"
cell_sums_2050(s) == stmts_sums_year(s, "2050")

\* the cell "Calculate country-level mortality for 2000", the change from
\* 2000 to 2050, and "for 2100 if data is available" with its two changes
cell_sums_2000_2100(s) ==
    LET s1 == stmts_change(stmts_sums_year(s, "2000"), "2000", "2050")
    IN IF ~IsNone(s1.exc) THEN s1
       ELSE IF IsUnset(s1.env["difference_mortality_2100"]) THEN Raise(s1, "NameError")
       ELSE IF IsNone(s1.env["difference_mortality_2100"]) THEN s1
       ELSE LET s2 == stmts_sums_year(s1, "2100")
                s3 == stmt_series_sub(s2, "change_2050_2100", "difference_sums_2100",
                                      "difference_sums_2050")
                s4 == stmt_series_sub(s3, "change_2000_2100", "difference_sums_2100",
                                      "difference_sums_2000")
                s5 == stmt_to_csv(s4, "change_2050_2100",
                                  "fire_smoke_deaths_change_2050_2100")
            IN stmt_to_csv(s5, "change_2000_2100", "fire_smoke_deaths_change_2000_2100")

----------------------------------------------------------------------------
(* A run of the notebook ("Run All"): the code cells in order; a cell that *)
(* raises stops the run, as the stored run of the notebook stopped at its  *)
(* NameError.  The data directory holds, for each file, nothing or one of  *)
(* a few rasters on a 2 x 2 grid with longitudes in [0, 360).              *)

GridLat == <<0, 1>>
GridLon == <<90, 270>>
OnGrid(lon, v11, v12, v21, v22) ==
    Raster(LatLon, GridLat, lon,
           (<<1, 1>> :> v11) @@ (<<1, 2>> :> v12) @@ (<<2, 1>> :> v21) @@ (<<2, 2>> :> v22))

PmBase == OnGrid(GridLon, Num(2), Num(1), Num(1), Num(3))
PmBaseNaN == OnGrid(GridLon, NaN, Num(1), Num(1), Num(3))
PmBaseShifted == OnGrid(<<90, 180>>, Num(2), Num(1), Num(1), Num(3))
PmNoFire == OnGrid(GridLon, Num(1), Num(0), Num(1), Num(2))
RateFile == OnGrid(GridLon, Num(1000), Num(2000), Num(2000), NaN)
PopulationOf(y) ==
    CASE y = "2000" -> OnGrid(GridLon, Num(1), Num(2), Num(3), Num(1))
      [] y = "2050" -> OnGrid(GridLon, Num(2), Num(2), Num(3), Num(4))
      [] y = "2100" -> OnGrid(GridLon, Num(3), Num(1), Num(5), Num(4))

FileChoices(key) ==
    {Missing} \cup
    (IF key \in {BaselineFile(y) : y \in Years} THEN {PmBase, PmBaseNaN, PmBaseShifted}
     ELSE IF key \in {NoFireFile(y) : y \in Years} THEN {PmNoFire}
     ELSE IF key = "death_rate" THEN {RateFile}
     ELSE {PopulationOf(y) : y \in {z \in Years : PopFile(z) = key}})

\* every data directory: each file absent or one of its rasters
DataDirs ==
    [pm25_2000 : FileChoices("pm25_2000"),
     pm25_2000_nofire : FileChoices("pm25_2000_nofire"),
     pm25_2050 : FileChoices("pm25_2050"),
     pm25_2050_nofire : FileChoices("pm25_2050_nofire"),
     pm25_2100 : FileChoices("pm25_2100"),
     pm25_2100_nofire : FileChoices("pm25_2100_nofire"),
     death_rate : FileChoices("death_rate"),
     pop_2000 : FileChoices("pop_2000"),
     pop_2050 : FileChoices("pop_2050"),
     pop_2100 : FileChoices("pop_2100")]

West == Box(-180, 0, -90, 90)
East == Box(0, 180, -90, 90)
NaturalEarth == <<Rec("A", West), Rec("B", East)>>

InitState ==
    [env |-> [n \in VarNames |-> Unset], csv |-> [n \in CsvNames |-> Unset], exc |-> None]

\* a kernel just started: the first run, no variable assigned before it
FirstRun == [run |-> 1, before |-> InitState.env]

Init ==
    /\ pc = "load_pm25_2050_2100"
    /\ files \in DataDirs
    /\ shapefile = NaturalEarth
    /\ env = InitState.env
    /\ csv = InitState.csv
    /\ raised = None
    /\ args = <<>>
    /\ ret = Unset
    /\ session = FirstRun

Now == [env |-> env, csv |-> csv, exc |-> None]

\* the run goes on to the cell `next` with the state s, or stops on s's
\* exception
Continue(s, next) ==
    /\ env' = s.env
    /\ csv' = s.csv
    /\ raised' = s.exc
    /\ pc' = IF IsNone(s.exc) THEN next ELSE "halted"
    /\ UNCHANGED <<files, shapefile, args, ret, session>>

LoadPM25_2050_2100 ==
    /\ pc = "load_pm25_2050_2100"
    /\ Continue(cell_load_pm25_2050_2100(Now, files), "load_pm25_2000")

LoadPM25_2000 ==
    /\ pc = "load_pm25_2000"
    /\ Continue(cell_load_pm25_2000(Now, files), "load_rate_population")

LoadRatePopulation ==
    /\ pc = "load_rate_population"
    /\ Continue(cell_load_rate_population(Now, files), "mortality_2050")

Mortality2050 ==
    /\ pc = "mortality_2050"
    /\ Continue(cell_mortality_2050(Now), "mortality_2000_2100")

Mortality2000_2100 ==
    /\ pc = "mortality_2000_2100"
    /\ Continue(cell_mortality_2000_2100(Now), "load_countries")

LoadCountries ==
    /\ pc = "load_countries"
    /\ Continue(cell_load_countries(Now), "sums_2050")

Sums2050 ==
    /\ pc = "sums_2050"
    /\ Continue(cell_sums_2050(Now), "sums_2000_2100")

Sums2000_2100 ==
    /\ pc = "sums_2000_2100"
    /\ Continue(cell_sums_2000_2100(Now), "done")

Next ==
    \/ LoadPM25_2050_2100
    \/ LoadPM25_2000
    \/ LoadRatePopulation
    \/ Mortality2050
    \/ Mortality2000_2100
    \/ LoadCountries
    \/ Sums2050
    \/ Sums2000_2100

Spec == Init /\ [][Next]_vars

\* the run is over: it reached the end or a cell raised
Finished == pc \in {"done", "halted"}

\* the whole run on the data directory fs as one function: each cell runs on
\* the state the cell before left, unless a cell before raised
RunAll(fs) ==
    LET s1 == cell_load_pm25_2050_2100(InitState, fs)
        s2 == IF IsNone(s1.exc) THEN cell_load_pm25_2000(s1, fs) ELSE s1
        s3 == IF IsNone(s2.exc) THEN cell_load_rate_population(s2, fs) ELSE s2
        s4 == IF IsNone(s3.exc) THEN cell_mortality_2050(s3) ELSE s3
        s5 == IF IsNone(s4.exc) THEN cell_mortality_2000_2100(s4) ELSE s4
        s6 == IF IsNone(s5.exc) THEN cell_load_countries(s5) ELSE s5
        s7 == IF IsNone(s6.exc) THEN cell_sums_2050(s6) ELSE s6
    IN IF IsNone(s7.exc) THEN cell_sums_2000_2100(s7) ELSE s7

\* the variables that hold the outputs of the year y
MortalityVars(y) ==
    {"baseline_mortality_" \o y, "nofire_mortality_" \o y, "difference_mortality_" \o y}
SumsVars(y) == {"baseline_sums_" \o y, "nofire_sums_" \o y, "difference_sums_" \o y}
OutputVars(y) == MortalityVars(y) \cup SumsVars(y)

\* the inputs of the year y in the data directory fs
YearFiles(y) == {BaselineFile(y), NoFireFile(y), PopFile(y)}
Present(fs, key) == fs[key].k # "missing"
AllPresent(fs, y) == \A key \in YearFiles(y) \cup {"death_rate"} : Present(fs, key)

\* the outputs of the year y were produced: three rasters and three series
Produced(e, y) ==
    /\ \A n \in MortalityVars(y) : IsRaster(e[n])
    /\ \A n \in SumsVars(y) : IsSeries(e[n])

----------------------------------------------------------------------------
(* Properties of the run *)

\* C2: for every country and every year, the fire-attributable aggregate is
\* the baseline aggregate minus the no-fire aggregate of that year, also when
\* a cell is NaN in one scenario's raster and not in the other's.
C2_DifferenceOfAggregates ==
    \A y \in Years :
        IsSeries(env["difference_sums_" \o y]) =>
            \A i \in DOMAIN env["difference_sums_" \o y].values :
                env["difference_sums_" \o y].values[i] =
                    VSub(env["baseline_sums_" \o y].values[i],
                         env["nofire_sums_" \o y].values[i])

\* the data directory with every absent input of 2100 put in place
With2100 ==
    [files EXCEPT !.pm25_2100 = IF Present(files, "pm25_2100") THEN @ ELSE PmBase,
                  !.pm25_2100_nofire =
                      IF Present(files, "pm25_2100_nofire") THEN @ ELSE PmNoFire,
                  !.pop_2100 = IF Present(files, "pop_2100") THEN @ ELSE PopulationOf("2100")]

\* C8: when an input of 2100 (a PM2.5 raster or the population raster) is
\* absent and the inputs of 2000 and 2050 are there, the run ends without
\* raising, the mortality rasters and aggregates of 2000 and 2050 are produced
\* and are the ones produced with 2100 in place, and the two changes that
\* involve 2100 are left unavailable.
C8_Without2100 ==
    (/\ Finished
     /\ ~AllPresent(files, "2100")
     /\ AllPresent(files, "2000")
     /\ AllPresent(files, "2050"))
        => /\ pc = "done"
           /\ \A y \in {"2000", "2050"} :
                 /\ Produced(env, y)
                 /\ \A n \in OutputVars(y) : env[n] = RunAll(With2100).env[n]
           /\ \A n \in {"change_2050_2100", "change_2000_2100"} :
                 IsUnset(env[n]) \/ IsNone(env[n])

\* C9: when a PM2.5 or population raster of 2000 or of 2050 cannot be loaded,
\* that year has no output, and every other year whose inputs are there still
\* gets its mortality rasters and its aggregates.
C9_OtherYearsComplete ==
    \A y \in {"2000", "2050"} :
        (Finished /\ Present(files, "death_rate") /\ ~AllPresent(files, y))
            => /\ \A n \in OutputVars(y) : IsUnset(env[n])
               /\ \A z \in Years \ {y} : AllPresent(files, z) => Produced(env, z)

\* the data directories that differ from fs in one raster of a year other
\* than y: that raster replaced by another raster
OtherYearChanged(fs, y) ==
    {[fs EXCEPT ![key] = r] :
        <<key, r>> \in {kr \in UNION {{<<key, r>> : r \in FileChoices(key)} :
                                       key \in UNION {YearFiles(z) : z \in Years \ {y}}} :
                          /\ Present(fs, kr[1])
                          /\ kr[2].k # "missing"}}

\* C10: the mortality rasters and aggregates of a year are the same in every
\* run that differs only in an input raster of another year.
C10_YearsIndependent ==
    Finished =>
        \A y \in Years :
            \A fs \in OtherYearChanged(files, y) :
                \A n \in OutputVars(y) : RunAll(fs).env[n] = env[n]

\* the pairs of years <<a, b>> whose change the notebook computes
ChangePairs == {<<"2000", "2050">>, <<"2050", "2100">>, <<"2000", "2100">>}

\* C19: each change from year a to year b has the country keys of the two
\* years' fire-attributable aggregates and holds, for every country, the
\* aggregate of b minus the aggregate of a, which is minus the change from b
\* to a.
C19_ChangeIsSubtraction ==
    \A ab \in ChangePairs :
        LET change == env["change_" \o ab[1] \o "_" \o ab[2]]
            from == env["difference_sums_" \o ab[1]]
            to == env["difference_sums_" \o ab[2]]
        IN IsSeries(change) =>
              /\ change.index = from.index
              /\ change.index = to.index
              /\ DOMAIN change.values = DOMAIN change.index
              /\ \A i \in DOMAIN change.values :
                    /\ change.values[i] = Num(to.values[i].v - from.values[i].v)
                    /\ change.values[i] = VNeg(series_sub(from, to).values[i])
              /\ csv["fire_smoke_deaths_change_" \o ab[1] \o "_" \o ab[2]] = change

\* a finished run with the three changes, one of them not 0
C19_Witness ==
    /\ pc = "done"
    /\ \A ab \in ChangePairs : IsSeries(env["change_" \o ab[1] \o "_" \o ab[2]])
    /\ env["difference_sums_2050"].values = <<Num(2668), Num(444)>>
    /\ env["difference_sums_2100"].values = <<Num(1334), Num(666)>>
    /\ env["change_2050_2100"].values = <<Num(-1334), Num(222)>>

\* x is the thousandth part of y
Thousandth(x, y) == x.k = y.k /\ x.v * 1000 = y.v

\* C20: the rate in use is the loaded rate divided by 1000, once: column by
\* column the thousandth part of the file's values; and every mortality
\* raster is computed with that rate.
C20_RatePerPersonOnce ==
    LET rate == env["death_rate"]
        loaded == files.death_rate
    IN /\ IsRaster(rate) =>
             /\ Present(files, "death_rate")
             /\ DOMAIN rate.vals = DOMAIN loaded.vals
             /\ \E column \in Permutations(DOMAIN loaded.lon) :
                   \A p \in DOMAIN loaded.vals :
                       Thousandth(rate.vals[<<p[1], column[p[2]]>>], loaded.vals[p])
       /\ \A y \in Years :
             /\ IsRaster(env["baseline_mortality_" \o y]) =>
                   env["baseline_mortality_" \o y] =
                       mortality(env["baseline_pm25_" \o y], rate, env["population_" \o y])
             /\ IsRaster(env["nofire_mortality_" \o y]) =>
                   env["nofire_mortality_" \o y] =
                       mortality(env["nofire_pm25_" \o y], rate, env["population_" \o y])

\* a finished run: the file's 2000 per 1000 people is 2 per person, and a
\* mortality of 2 * (1 - exp(-1.1)) * 2 comes from it
C20_Witness ==
    /\ pc = "done"
    /\ files.death_rate = RateFile
    /\ env["death_rate"].vals[<<1, 1>>] = Num(2)
    /\ env["baseline_mortality_2000"].vals[<<1, 1>>] = Num(2 * 667 * 2)

----------------------------------------------------------------------------
(* The whole notebook: after the processing cells, the cell that prints    *)
(* the summary statistics and the cell after it, which prints two lines of *)
(* them again.  A run stops at the first cell that raises, so the cells    *)
(* below that one (the maps and the country rankings) are not run.         *)

\* an expression reads the global `name`: a NameError when no cell has
\* assigned it
stmt_read(s, name) ==
    IF ~IsNone(s.exc) THEN s
    ELSE IF name \notin DOMAIN s.env THEN Raise(s, "NameError")
    ELSE IF IsUnset(s.env[name]) THEN Raise(s, "NameError")
    ELSE s

\* the cell "Summary Statistics": the totals of 2050, of 2000, and of 2100
\* if difference_mortality_2100 is not None
cell_summary(s) ==
    LET s1 == stmt_read(s, "baseline_sums_2050")
        s2 == stmt_read(s1, "nofire_sums_2050")
        s3 == stmt_read(s2, "difference_sums_2050")
        s4 == stmt_read(s3, "difference_sums_2000")
        s5 == stmt_read(s4, "difference_mortality_2100")
    IN IF ~IsNone(s5.exc) THEN s5
       ELSE IF IsNone(s5.env["difference_mortality_2100"]) THEN s5
       ELSE stmt_read(stmt_read(stmt_read(s5, "baseline_sums_2100"), "nofire_sums_2100"),
                      "difference_sums_2100")

\* the cell after it: difference_sums_2000.sum(), then difference_sums.sum()
cell_summary_2000(s) ==
    stmt_read(stmt_read(s, "difference_sums_2000"), "difference_sums")

Summary ==
    /\ pc = "done"
    /\ Continue(cell_summary(Now), "summary_2000")

Summary2000 ==
    /\ pc = "summary_2000"
    /\ Continue(cell_summary_2000(Now), "visualizations")

NextNotebook == Next \/ Summary \/ Summary2000

SpecNotebook == Init /\ [][NextNotebook]_vars

\* every input file is in the data directory
EveryInputPresent == \A key \in FileKeys : Present(files, key)

\* C24: with every input present, no cell of the run reads a variable that
\* no earlier cell has assigned: the run does not stop on a NameError.
C24_NoNameError ==
    EveryInputPresent => ~(IsExc(raised) /\ raised.type = "NameError")

----------------------------------------------------------------------------
(* A session: the notebook is run, a file of the data directory is removed *)
(* or replaced, and the notebook is run again in the same kernel, at most  *)
(* MaxRuns runs in all.  The global variables of one run are there in the  *)
(* next: an except block that only prints leaves what the run before, or   *)
(* the part of the try block before the failure, assigned.                 *)

MaxRuns == 2

\* the data directories a session starts from: the death rate and every
\* input of 2000 and of 2050 are there
SessionDirs == {fs \in DataDirs : AllPresent(fs, "2000") /\ AllPresent(fs, "2050")}

InitSession ==
    /\ pc = "load_pm25_2050_2100"
    /\ files \in SessionDirs
    /\ shapefile = NaturalEarth
    /\ env = InitState.env
    /\ csv = InitState.csv
    /\ raised = None
    /\ args = <<>>
    /\ ret = Unset
    /\ session = FirstRun

\* one file is removed or replaced and the cells are run again from the top
RunAllAgain ==
    /\ Finished
    /\ session.run < MaxRuns
    /\ \E key \in FileKeys :
          \E r \in FileChoices(key) \ {files[key]} :
              files' = [files EXCEPT ![key] = r]
    /\ session' = [run |-> session.run + 1, before |-> env]
    /\ pc' = "load_pm25_2050_2100"
    /\ raised' = None
    /\ UNCHANGED <<shapefile, env, csv, args, ret>>

NextSession == Next \/ RunAllAgain

SpecSession == InitSession /\ [][NextSession]_vars

\* the changes between two years that involve the year y
ChangeVars(y) ==
    {"change_" \o ab[1] \o "_" \o ab[2] : ab \in {cd \in ChangePairs : y \in {cd[1], cd[2]}}}

\* the load of the year y fails in the run under way: one of its files is
\* not there
LoadFails(fs, y) == \E key \in YearFiles(y) : ~Present(fs, key)

Unavailable(v) == IsUnset(v) \/ IsNone(v)

\* C22: when the load of a year's rasters has failed in a run, the run does
\* not stop on an unset variable of that year, and at its end every mortality
\* raster, aggregate and change of that year is unavailable (unset or None)
\* or is what it was before the run: none was computed in the run, from
\* what the failed load left assigned or from an earlier run's rasters.
C22_FailedYearUnavailable ==
    \A y \in Years :
        (Finished /\ LoadFails(files, y)) =>
            /\ (\A z \in Years \ {y} : ~LoadFails(files, z))
                  => ~(IsExc(raised) /\ raised.type = "NameError")
            /\ \A n \in OutputVars(y) \cup ChangeVars(y) :
                  Unavailable(env[n]) \/ env[n] = session.before[n]

============================================================================
